---- MODULE Spec2Model ----
(***************************************************************************)
(* Model of js/app.js: the GitHubAPI data source (session cache, then      *)
(* XMLHttpRequest fetch, filter and sort) and the callbacks it drives.     *)
(***************************************************************************)
EXTENDS Integers, Sequences, FiniteSets, TLC

(***************************************************************************)
(* Bounds of the model.                                                    *)
(***************************************************************************)
\* getRepos calls made during one session.
MaxCalls == 2
\* Records in one list, where every list is tried (SpecFilter).
MaxListLen == 3
\* Lexemes in one template, where every template is tried (SpecRender).
MaxTemplateLen == 6

(***************************************************************************)
(* Inputs.                                                                 *)
(***************************************************************************)
\* GitHub usernames (the github-username attribute, app.js line 99).
Users == {"liamnewmarch", "octocat"}

\* Repository records the API may return: name, has_pages, updated_at.
Repo(n, p, d) == [name |-> n, has_pages |-> p, updated_at |-> d]

RepoX == Repo("x", TRUE, "2020-01-01")
RepoZ == Repo("z", TRUE, "2020-01-01")
RepoW == Repo("w", TRUE, "2021-01-01")
RepoY == Repo("y", FALSE, "2021-01-01")
RepoSite == Repo("liamnewmarch.github.io", TRUE, "2022-01-01")
RepoWedding == Repo("janineandliam.co.uk", TRUE, "2021-01-01")

Repos == {RepoX, RepoZ, RepoW, RepoY, RepoSite, RepoWedding}

\* The record lists the API answers with in the state machine.
SampleLists ==
  { <<>>,
    <<RepoX, RepoY, RepoSite>>,
    <<RepoX, RepoW>>,
    <<RepoZ, RepoX>>,
    <<RepoWedding, RepoY>> }

\* All record lists of at most n records.
ListsUpTo(n) == UNION { [1..k -> Repos] : k \in 0..n }

\* HTTP statuses a load event may carry.
Statuses == {200, 404}

\* The implementation-defined behaviours of Array.prototype.sort when the
\* comparator is not consistent (it answers 1 for both orders of a tie):
\* "pivotFirst" inserts with comparefn(pivot, element), "elementFirst"
\* with comparefn(element, pivot).
Engines == {"pivotFirst", "elementFirst"}

VARIABLES
  sessionStorage,  \* user -> [has, text]: the session cache
  nCalls,          \* getRepos calls made so far
  pending,         \* the requests in flight, in the order they were sent
  ev,              \* the handler that ran last, and what it observed
  fetched,         \* user -> the list last delivered from the fetch path
  origin,          \* cache key -> the user whose request wrote the entry
  engine,          \* the sort implementation of this browser
  input,           \* pure check: the list handed to filterWithPages
  output,          \* pure check: what filterWithPages returned
  again,           \* pure check: what a second run on the same list returned
  template,        \* renderer check: the template string
  record,          \* renderer check: the repo object
  rendered         \* renderer check: what template.replace returned

vars ==
  <<sessionStorage, nCalls, pending, ev, fetched, origin, engine, input, output,
    again,
    template, record, rendered>>

(***************************************************************************)
(* Static configuration.                                                   *)
(***************************************************************************)
baseUrl == "https://api.github.com"

exclude == <<"liamnewmarch.github.io", "janineandliam.co.uk">>

\* Array.prototype.includes
includes(arr, x) == \E i \in 1..Len(arr) : arr[i] = x

(***************************************************************************)
(* JSON.  A JSON text is a sequence of tokens; a record is written as      *)
(* { name <n> has_pages <true|false> updated_at <d> }.                     *)
(***************************************************************************)
RECURSIVE Flatten(_)
Flatten(ss) == IF ss = <<>> THEN <<>> ELSE Head(ss) \o Flatten(Tail(ss))

stringifyRepo(r) ==
  <<"{", "name", r.name,
    "has_pages", IF r.has_pages THEN "true" ELSE "false",
    "updated_at", r.updated_at, "}">>

JSONstringify(list) ==
  <<"[">> \o Flatten([i \in 1..Len(list) |-> stringifyRepo(list[i])]) \o <<"]">>

\* Tokens of one record.
ObjLen == Len(stringifyRepo(CHOOSE r \in Repos : TRUE))

isRepoText(t) ==
  /\ Len(t) = ObjLen
  /\ t[1] = "{" /\ t[2] = "name" /\ t[4] = "has_pages"
  /\ t[5] \in {"true", "false"}
  /\ t[6] = "updated_at" /\ t[8] = "}"

parseRepo(t) ==
  [name |-> t[3], has_pages |-> (t[5] = "true"), updated_at |-> t[7]]

\* JSON.parse: [ok, kind, value]; ok = FALSE is a thrown SyntaxError.
JSONparse(text) ==
  LET n == Len(text)
      k == (n - 2) \div ObjLen
      chunk(i) == SubSeq(text, 2 + (i - 1) * ObjLen, 1 + i * ObjLen)
  IN  IF /\ n >= 2 /\ text[1] = "[" /\ text[n] = "]"
         /\ (n - 2) % ObjLen = 0
         /\ \A i \in 1..k : isRepoText(chunk(i))
      THEN [ok |-> TRUE, kind |-> "array",
            value |-> [i \in 1..k |-> parseRepo(chunk(i))]]
      ELSE IF n >= 2 /\ text[1] = "{" /\ text[n] = "}"
      THEN [ok |-> TRUE, kind |-> "object", value |-> <<>>]
      ELSE [ok |-> FALSE, kind |-> "SyntaxError", value |-> <<>>]

(***************************************************************************)
(* filterWithPages (lines 82-88).                                          *)
(***************************************************************************)
\* new Date(updated_at): the time value, here in days since the epoch.
DateOf(s) ==
  CASE s = "2020-01-01" -> 18262
    [] s = "2021-01-01" -> 18628
    [] s = "2022-01-01" -> 18993

\* Mutant: the comparison reversed (oldest first).
compareAscending(a, b) ==
  IF DateOf(a.updated_at) < DateOf(b.updated_at) THEN -1 ELSE 1

\* The sort comparator (line 86).
compare(a, b) ==
  IF DateOf(a.updated_at) > DateOf(b.updated_at) THEN -1 ELSE 1

\* Binary insertion: the place of pivot in the sorted run, asking
\* compare(pivot, element); candidates are left..right-1.
RECURSIVE search(_, _, _, _)
search(run, pivot, left, right) ==
  IF left >= right THEN left
  ELSE LET mid == left + (right - left) \div 2
       IN  IF compare(pivot, run[mid]) < 0
           THEN search(run, pivot, left, mid)
           ELSE search(run, pivot, mid + 1, right)

\* Linear insertion from the right: the place of item in the sorted run,
\* asking compare(element, item).
RECURSIVE scan(_, _, _)
scan(run, item, j) ==
  IF j >= 1 /\ compare(run[j], item) > 0 THEN scan(run, item, j - 1) ELSE j + 1

insertAt(run, p, x) ==
  SubSeq(run, 1, p - 1) \o <<x>> \o SubSeq(run, p, Len(run))

\* Array.prototype.sort(compare), as the engine eng performs it.
RECURSIVE sortFrom(_, _, _)
sortFrom(run, rest, eng) ==
  IF rest = <<>> THEN run
  ELSE LET x == Head(rest)
           p == IF eng = "pivotFirst"
                THEN search(run, x, 1, Len(run) + 1)
                ELSE scan(run, x, Len(run))
       IN  sortFrom(insertAt(run, p, x), Tail(rest), eng)

sort(arr) == sortFrom(<<>>, arr, engine)

\* The filter predicate (line 84).
keep(repo) == repo.has_pages /\ ~includes(exclude, repo.name)

\* Mutant: the exclusion list is not consulted.
filterWithPagesNoExclude(repos) ==
  sort(SelectSeq(repos, LAMBDA repo : repo.has_pages))

\* Mutant: the has_pages flag is not consulted.
filterWithPagesNoFlag(repos) ==
  sort(SelectSeq(repos, LAMBDA repo : ~includes(exclude, repo.name)))

filterWithPages(repos) == sort(SelectSeq(repos, keep))

(***************************************************************************)
(* The renderer (lines 127, 158-167).  A template is a sequence of         *)
(* lexemes: a brace, a whitespace character, a maximal run of word         *)
(* characters (one lexeme, e.g. "name"), or another character.  A repo     *)
(* object is a function from property names to JavaScript values.          *)
(***************************************************************************)
Str(s) == [t |-> "string", s |-> s, b |-> FALSE, n |-> 0]
Bool(b) == [t |-> "boolean", s |-> "", b |-> b, n |-> 0]
Num(n) == [t |-> "number", s |-> "", b |-> FALSE, n |-> n]
Null == [t |-> "null", s |-> "", b |-> FALSE, n |-> 0]
Undefined == [t |-> "undefined", s |-> "", b |-> FALSE, n |-> 0]

\* repo[key]
get(repo, key) == IF key \in DOMAIN repo THEN repo[key] ELSE Undefined

\* ToBoolean, as || applies it (line 164).
truthy(v) ==
  CASE v.t = "string" -> v.s # ""
    [] v.t = "boolean" -> v.b
    [] v.t = "number" -> v.n # 0
    [] OTHER -> FALSE

\* ToString of the replacement, as String.prototype.replace applies it; the
\* empty string is no lexeme at all.
toString(v) ==
  CASE v.t = "string" -> IF v.s = "" THEN <<>> ELSE <<v.s>>
    [] v.t = "boolean" -> IF v.b THEN <<"true">> ELSE <<"false">>
    [] v.t = "number" -> IF v.n = 0 THEN <<"0">> ELSE <<"7">>
    [] v.t = "null" -> <<"null">>
    [] OTHER -> <<"undefined">>

\* The replacement function (lines 163-165): repo[key] || ''.
replacement(repo, key) ==
  IF truthy(get(repo, key)) THEN toString(get(repo, key)) ELSE toString(Str(""))

\* Character classes of templateRegExp (line 127).
isSpace(x) == x = " "
isWord(x) == x \notin {"{", "}", " ", "<", ">", "/", "-"}

\* \s*: the first position at or after i that holds no whitespace.
RECURSIVE skipSpaces(_, _)
skipSpaces(t, i) ==
  IF i <= Len(t) /\ isSpace(t[i]) THEN skipSpaces(t, i + 1) ELSE i

\* Mutant: the pattern without \s*, /\{\{(\w+)\}\}/g.
matchAtNoSpaces(t, i) ==
  IF /\ i + 4 <= Len(t)
     /\ t[i] = "{" /\ t[i + 1] = "{"
     /\ isWord(t[i + 2])
     /\ t[i + 3] = "}" /\ t[i + 4] = "}"
  THEN [ok |-> TRUE, key |-> t[i + 2], end |-> i + 4]
  ELSE [ok |-> FALSE, key |-> "", end |-> i]

\* templateRegExp tried at position i: \{\{\s*(\w+)\s*\}\}.
matchAt(t, i) ==
  LET j == skipSpaces(t, i + 2)
      k == skipSpaces(t, j + 1)
  IN  IF /\ i + 1 <= Len(t) /\ t[i] = "{" /\ t[i + 1] = "{"
         /\ j <= Len(t) /\ isWord(t[j])
         /\ k + 1 <= Len(t) /\ t[k] = "}" /\ t[k + 1] = "}"
      THEN [ok |-> TRUE, key |-> t[j], end |-> k + 1]
      ELSE [ok |-> FALSE, key |-> "", end |-> i]

\* String.prototype.replace with the global pattern, from position i on.
RECURSIVE replaceFrom(_, _, _)
replaceFrom(t, repo, i) ==
  IF i > Len(t) THEN <<>>
  ELSE LET m == matchAt(t, i)
       IN  IF m.ok
           THEN replacement(repo, m.key) \o replaceFrom(t, repo, m.end + 1)
           ELSE <<t[i]>> \o replaceFrom(t, repo, i + 1)

\* this.template.replace(re, ...) (lines 163-165).
render(t, repo) == replaceFrom(t, repo, 1)

\* The repo objects JSON.parse makes of the API records.
Fields(r) ==
  [name |-> Str(r.name), has_pages |-> Bool(r.has_pages),
   updated_at |-> Str(r.updated_at)]

(***************************************************************************)
(* The session cache.                                                      *)
(***************************************************************************)
NoEntry == [has |-> FALSE, text |-> <<>>]

\* sessionStorage[username] as JSON.parse reads it: an absent entry is
\* undefined, which JSON.parse turns into the text "undefined".
getItem(entry) == IF entry.has THEN entry.text ELSE <<"undefined">>

\* A cached list cut short (not valid JSON).
Truncated == SubSeq(JSONstringify(<<RepoX>>), 1, 4)

(***************************************************************************)
(* HTTP response bodies.                                                   *)
(***************************************************************************)
NotFoundBody == <<"{", "message", "Not Found", "}">>

Bodies ==
  { JSONstringify(l) : l \in SampleLists } \cup {Truncated, NotFoundBody}

(***************************************************************************)
(* getRepos (lines 38-46): what the try block does with the cached text,   *)
(* and whether the catch clause calls fetchUserRepos.  sThrows: the        *)
(* success callback throws.                                                *)
(***************************************************************************)
\* Mutant: a cache entry that does not parse is reported to the error
\* callback instead of falling back to the fetch.
getReposNoFallback(json, sThrows) ==
  LET parsed == JSONparse(json)
  IN  IF ~parsed.ok
      THEN [hit |-> FALSE, succ |-> 0, err |-> 1, repos |-> <<>>, fetch |-> FALSE]
      ELSE [hit |-> TRUE, succ |-> 1, err |-> 0, repos |-> parsed.value,
            fetch |-> sThrows]

getRepos(json, sThrows) ==
  LET parsed == JSONparse(json)
  IN  IF ~parsed.ok
      THEN [hit |-> FALSE, succ |-> 0, err |-> 0, repos |-> <<>>, fetch |-> TRUE]
      ELSE [hit |-> TRUE, succ |-> 1, err |-> 0, repos |-> parsed.value,
            fetch |-> sThrows]

\* fetchUserRepos (lines 55-58, 72): the request that is opened and sent.
fetchUserRepos(username) ==
  [method |-> "GET", url |-> <<baseUrl, "/users/", username, "/repos">>]

(***************************************************************************)
(* The load listener (lines 59-70).  entry: the user's cache entry when    *)
(* the listener starts.  Result: callbacks invoked, the list handed to     *)
(* the success callback, the cache entry the success callback could see,   *)
(* and the cache entry when the listener ends.                             *)
(***************************************************************************)
loadResult(succ, err, list, seen, entry, outcome) ==
  [succ |-> succ, err |-> err, list |-> list, seen |-> seen, entry |-> entry,
   outcome |-> outcome]

\* Mutant: the catch clause swallows the exception.
loadListenerSilentCatch(status, response, entry, sThrows) ==
  IF status # 200
  THEN loadResult(0, 0, <<>>, entry, entry, "status")
  ELSE LET data == JSONparse(response)
       IN  IF ~data.ok
           THEN loadResult(0, 0, <<>>, entry, entry, "SyntaxError")
           ELSE IF data.kind # "array"
           THEN loadResult(0, 0, <<>>, entry, entry, "TypeError")
           ELSE LET filtered == filterWithPages(data.value)
                IN  IF sThrows
                    THEN loadResult(1, 0, filtered, entry, entry, "callbackThrew")
                    ELSE loadResult(1, 0, filtered, entry,
                                    [has |-> TRUE, text |-> JSONstringify(filtered)],
                                    "stored")

\* Mutant: the raw response is cached before it is parsed.
loadListenerStoresFirst(status, response, entry, sThrows) ==
  LET raw == [has |-> TRUE, text |-> response]
  IN  IF status # 200
      THEN loadResult(0, 0, <<>>, raw, raw, "status")
      ELSE LET data == JSONparse(response)
           IN  IF ~data.ok
               THEN loadResult(0, 1, <<>>, raw, raw, "SyntaxError")
               ELSE IF data.kind # "array"
               THEN loadResult(0, 1, <<>>, raw, raw, "TypeError")
               ELSE LET filtered == filterWithPages(data.value)
                    IN  IF sThrows
                        THEN loadResult(1, 1, filtered, raw, raw, "callbackThrew")
                        ELSE loadResult(1, 0, filtered, raw,
                                        [has |-> TRUE,
                                         text |-> JSONstringify(filtered)],
                                        "stored")

loadListener(status, response, entry, sThrows) ==
  IF status # 200
  THEN \* line 60: no else branch, nothing is called
       loadResult(0, 0, <<>>, entry, entry, "status")
  ELSE LET data == JSONparse(response)
       IN  IF ~data.ok
           THEN \* line 62 throws, line 67
                loadResult(0, 1, <<>>, entry, entry, "SyntaxError")
           ELSE IF data.kind # "array"
           THEN \* line 63: data.filter is not a function, line 67
                loadResult(0, 1, <<>>, entry, entry, "TypeError")
           ELSE LET filtered == filterWithPages(data.value)
                IN  IF sThrows
                    THEN \* line 64 throws: line 65 is skipped, line 67
                         loadResult(1, 1, filtered, entry, entry, "callbackThrew")
                    ELSE \* line 64, then line 65
                         loadResult(1, 0, filtered, entry,
                                    [has |-> TRUE, text |-> JSONstringify(filtered)],
                                    "stored")

\* No user: nothing was delivered, or the entry was not written by a request.
NoUser == "none"

(***************************************************************************)
(* State machine.  A getRepos call either ends inside getRepos (cache      *)
(* hit) or leaves one request in flight, which ends with its load or its   *)
(* error event.  ev is the handler that ran last: the call it belongs to,  *)
(* what it received, which callbacks the call has had in total, the list   *)
(* handed to the success callback and the cache entry that callback could  *)
(* see.                                                                    *)
(***************************************************************************)
NoEvent ==
  [kind |-> "none", call |-> 0, user |-> "", hit |-> FALSE, status |-> 0,
   response |-> <<>>, called |-> 0, succ |-> 0, err |-> 0, requests |-> <<>>,
   list |-> <<>>, seen |-> NoEntry, outcome |-> "none", overlapped |-> FALSE,
   source |-> NoUser, container |-> <<>>]

NoList == [has |-> FALSE, list |-> <<>>]

\* The markup of the template element (lines 147-150), as lexemes:
\* "<b>{{ name }}</b> {{description}}".
ComponentTemplate ==
  <<"<", "b", ">", "{", "{", " ", "name", " ", "}", "}", "<", "/", "b", ">",
    " ", "{", "{", "description", "}", "}">>

\* The element _render builds for one repo (lines 158-166).
element(repo) ==
  [className |-> "repo-list-item",
   href |-> <<"https://liamnewmarch.github.io/", repo.name, "/">>,
   innerHTML |-> render(ComponentTemplate, Fields(repo))]

\* _render(repo): the children of the container after appendChild
\* (line 166).
_render(children, repo) == Append(children, element(repo))

\* A variant of the success callback that renders the first repo only.
forEachFirstOnly(children, repos) ==
  IF repos = <<>> THEN children ELSE _render(children, repos[1])

\* The component's success callback, repos.forEach(this._render.bind(this))
\* (lines 101-103): the children of the container afterwards.
RECURSIVE forEach(_, _)
forEach(children, repos) ==
  IF repos = <<>> THEN children
  ELSE forEach(_render(children, repos[1]), Tail(repos))

\* The children of the container after a handler that invoked the success
\* callback succ times with repos.  The component's callback returns
\* normally on every list of records; a success callback that throws
\* (sThrows) is another caller's and appends nothing.
appended(children, succ, sThrows, repos) ==
  IF succ = 1 /\ ~sThrows THEN forEach(children, repos) ELSE children

\* A variant of the cache key that is the same for every user.
cacheKeyShared(username) == CHOOSE u \in Users : TRUE

\* The key of a user's cache entry: sessionStorage[this.username]
\* (lines 40 and 65).
cacheKey(username) == username

\* The user a request asks for: the third part of its URL (line 56).
userOf(request) == request.url[3]

NoRun == [done |-> FALSE, list |-> <<>>]

\* The empty object {}.
NoRecord == <<>>

Init ==
  /\ sessionStorage \in [Users -> {NoEntry, [has |-> TRUE, text |-> Truncated]}]
  /\ nCalls = 0
  /\ pending = <<>>
  /\ ev = NoEvent
  /\ fetched = [u \in Users |-> NoList]
  /\ origin = [u \in Users |-> NoUser]
  /\ engine \in Engines
  /\ input = <<>>
  /\ output = NoRun
  /\ again = NoRun
  /\ template = <<>>
  /\ record = NoRecord
  /\ rendered = NoRun

\* api.getRepos(successCallback, errorCallback) for user u (lines 38-46,
\* and lines 55-58, 71-72 when the catch clause runs).
GetRepos(u, sThrows) ==
  /\ nCalls < MaxCalls
  /\ \E r \in {getRepos(getItem(sessionStorage[cacheKey(u)]), sThrows)} :
     LET c == nCalls + 1
         sent == IF r.fetch THEN <<fetchUserRepos(u)>> ELSE <<>>
         \* another request for the same user is in flight
         overlap == r.fetch /\ \E k \in DOMAIN pending : pending[k].user = u
     IN  /\ nCalls' = c
         /\ pending' = IF r.fetch
                       THEN Append([k \in DOMAIN pending |->
                                      IF pending[k].user = u
                                      THEN [pending[k] EXCEPT !.overlapped = TRUE]
                                      ELSE pending[k]],
                                   [call |-> c, user |-> u, hit |-> r.hit,
                                    succ |-> r.succ, err |-> r.err,
                                    requests |-> sent, overlapped |-> overlap,
                                    container |->
                                      appended(<<>>, r.succ, sThrows, r.repos)])
                       ELSE pending
         /\ ev' = [kind |-> "getRepos", call |-> c, user |-> u, hit |-> r.hit,
                   status |-> 0, response |-> <<>>, called |-> r.succ,
                   succ |-> r.succ, err |-> r.err, requests |-> sent,
                   list |-> r.repos, seen |-> sessionStorage[cacheKey(u)],
                   outcome |-> IF r.fetch THEN "pending"
                               ELSE IF r.hit THEN "hit" ELSE "failed",
                   overlapped |-> overlap,
                   source |-> IF r.succ = 1 THEN origin[cacheKey(u)]
                              ELSE NoUser,
                   container |-> appended(<<>>, r.succ, sThrows, r.repos)]
  /\ UNCHANGED <<sessionStorage, fetched, origin, engine, input, output, again,
                 template, record, rendered>>

Without(seq, k) == SubSeq(seq, 1, k - 1) \o SubSeq(seq, k + 1, Len(seq))

\* The load event of the k-th request in flight (lines 59-70).
Load(k, status, response, sThrows) ==
  /\ k \in DOMAIN pending
  /\ \E r \in {loadListener(status, response,
                            sessionStorage[cacheKey(pending[k].user)], sThrows)} :
     LET c == pending[k]
         u == c.user
         from == userOf(c.requests[1])
     IN  /\ pending' = Without(pending, k)
         /\ sessionStorage' = [sessionStorage EXCEPT ![cacheKey(u)] = r.entry]
         /\ origin' = IF r.outcome = "stored"
                      THEN [origin EXCEPT ![cacheKey(u)] = from]
                      ELSE origin
         /\ fetched' = IF r.succ = 1
                       THEN [fetched EXCEPT ![u] = [has |-> TRUE, list |-> r.list]]
                       ELSE fetched
         /\ ev' = [kind |-> "load", call |-> c.call, user |-> u, hit |-> c.hit,
                   status |-> status, response |-> response, called |-> r.succ,
                   succ |-> c.succ + r.succ, err |-> c.err + r.err,
                   requests |-> c.requests, list |-> r.list, seen |-> r.seen,
                   outcome |-> r.outcome, overlapped |-> c.overlapped,
                   source |-> IF r.succ = 1 THEN from ELSE NoUser,
                   container |->
                     appended(c.container, r.succ, sThrows, r.list)]
  /\ UNCHANGED <<nCalls, engine, input, output, again, template, record, rendered>>

\* A variant of the error listener that sends the request a second time.
ErrorEventRetry(k) ==
  /\ k \in DOMAIN pending
  /\ LET c == pending[k]
         again2 == Len(c.requests) < 2
         sent == IF again2 THEN Append(c.requests, fetchUserRepos(c.user))
                 ELSE c.requests
     IN  /\ pending' = IF again2
                       THEN [pending EXCEPT ![k].requests = sent,
                                            ![k].err = c.err + 1]
                       ELSE Without(pending, k)
         /\ ev' = [kind |-> "error", call |-> c.call, user |-> c.user,
                   hit |-> c.hit, status |-> 0, response |-> <<>>, called |-> 0,
                   succ |-> c.succ, err |-> c.err + 1, requests |-> sent,
                   list |-> <<>>, seen |-> sessionStorage[cacheKey(c.user)],
                   outcome |-> "transport", overlapped |-> c.overlapped,
                   source |-> NoUser, container |-> c.container]
  /\ UNCHANGED <<sessionStorage, nCalls, fetched, origin, engine, input, output, again,
                 template, record, rendered>>

\* The error event of the k-th request in flight (line 71).
ErrorEvent(k) ==
  /\ k \in DOMAIN pending
  /\ LET c == pending[k]
     IN  /\ pending' = Without(pending, k)
         /\ ev' = [kind |-> "error", call |-> c.call, user |-> c.user,
                   hit |-> c.hit, status |-> 0, response |-> <<>>, called |-> 0,
                   succ |-> c.succ, err |-> c.err + 1, requests |-> c.requests,
                   list |-> <<>>, seen |-> sessionStorage[cacheKey(c.user)],
                   outcome |-> "transport", overlapped |-> c.overlapped,
                   source |-> NoUser, container |-> c.container]
  /\ UNCHANGED <<sessionStorage, nCalls, fetched, origin, engine, input, output, again,
                 template, record, rendered>>

\* What a request may be answered with: the body is read only when the
\* status is 200 (line 60).
Responses(status) == IF status = 200 THEN Bodies ELSE {NotFoundBody}

Next ==
  \/ \E u \in Users, sThrows \in BOOLEAN : GetRepos(u, sThrows)
  \/ \E k \in 1..MaxCalls, status \in Statuses, sThrows \in BOOLEAN :
        \E response \in Responses(status) : Load(k, status, response, sThrows)
  \/ \E k \in 1..MaxCalls : ErrorEvent(k)

Spec == Init /\ [][Next]_vars

(***************************************************************************)
(* The page's components: every getRepos call is the one a component      *)
(* makes from its constructor, with the component's own callbacks.        *)
(***************************************************************************)

\* new GitHubReposComponent(element) for an element whose github-username
\* attribute is u (lines 96-106).
GitHubReposComponent(u) == GetRepos(u, FALSE)

NextComponent ==
  \/ \E u \in Users : GitHubReposComponent(u)
  \/ \E k \in 1..MaxCalls, status \in Statuses :
        \E response \in Responses(status) : Load(k, status, response, FALSE)
  \/ \E k \in 1..MaxCalls : ErrorEvent(k)

SpecComponent == Init /\ [][NextComponent]_vars

(***************************************************************************)
(* Every list of at most MaxListLen records, under each sort               *)
(* implementation: handed to filterWithPages directly (twice), and sent    *)
(* as the 200 response to the first getRepos call of a session.            *)
(***************************************************************************)
InitFilter ==
  /\ sessionStorage = [u \in Users |-> NoEntry]
  /\ nCalls = 0
  /\ pending = <<>>
  /\ ev = NoEvent
  /\ fetched = [u \in Users |-> NoList]
  /\ origin = [u \in Users |-> NoUser]
  /\ engine \in Engines
  /\ input \in ListsUpTo(MaxListLen)
  /\ output = NoRun
  /\ again = NoRun
  /\ template = <<>>
  /\ record = NoRecord
  /\ rendered = NoRun

Apply ==
  /\ ~output.done
  /\ output' = [done |-> TRUE, list |-> filterWithPages(input)]
  /\ UNCHANGED <<sessionStorage, nCalls, pending, ev, fetched, origin, engine, input, again,
                 template, record, rendered>>

ApplyAgain ==
  /\ output.done
  /\ ~again.done
  /\ again' = [done |-> TRUE, list |-> filterWithPages(input)]
  /\ UNCHANGED <<sessionStorage, nCalls, pending, ev, fetched, origin, engine, input, output,
                 template, record, rendered>>

FirstCall == nCalls = 0 /\ \E u \in Users : GetRepos(u, FALSE)

Answer == \E sThrows \in BOOLEAN : Load(1, 200, JSONstringify(input), sThrows)

NextFilter == Apply \/ ApplyAgain \/ FirstCall \/ Answer

SpecFilter == InitFilter /\ [][NextFilter]_vars

(***************************************************************************)
(* The renderer as a pure function: every template of at most             *)
(* MaxTemplateLen lexemes over a small alphabet, and the templates and     *)
(* repo objects of the documented examples.                                *)
(***************************************************************************)
Alphabet == {"{", "}", " ", "a"}

\* A maximal run of word characters is one lexeme: no two are adjacent.
WellFormed(t) == \A i \in 1..(Len(t) - 1) : ~(isWord(t[i]) /\ isWord(t[i + 1]))

AllTemplates ==
  { t \in UNION { [1..k -> Alphabet] : k \in 0..MaxTemplateLen } : WellFormed(t) }

SampleTemplates ==
  { <<"{", "{", "name", "}", "}">>,
    <<"{", "{", "missing", "}", "}">>,
    <<"{", "{", " ", "a", " ", "}", "}", " ", "and", " ", "{", "{", "b", "}", "}">>,
    <<"<", "b", ">", "{", "{", " ", " ", "name", "}", "}", "<", "/", "b", ">",
      " ", "{", "{", "has_pages", " ", "}", "}", "{", "{", "a", "-", "}", "}">> }

SampleRecords ==
  { NoRecord,
    [name |-> Str("foo")],
    [a |-> Str("x"), b |-> Str("y")],
    [a |-> Null],
    [a |-> Str("")],
    [a |-> Num(0)],
    [a |-> Num(7)],
    [a |-> Bool(FALSE)],
    [a |-> Bool(TRUE)],
    Fields(RepoX),
    Fields(RepoY) }

InitRender ==
  /\ sessionStorage = [u \in Users |-> NoEntry]
  /\ nCalls = 0
  /\ pending = <<>>
  /\ ev = NoEvent
  /\ fetched = [u \in Users |-> NoList]
  /\ origin = [u \in Users |-> NoUser]
  /\ engine = "pivotFirst"
  /\ input = <<>>
  /\ output = NoRun
  /\ again = NoRun
  /\ \/ template \in AllTemplates /\ record \in {[a |-> Str("x")], NoRecord}
     \/ template \in SampleTemplates /\ record \in SampleRecords
  /\ rendered = NoRun

Render ==
  /\ ~rendered.done
  /\ rendered' = [done |-> TRUE, list |-> render(template, record)]
  /\ UNCHANGED <<sessionStorage, nCalls, pending, ev, fetched, origin, engine, input,
                 output, again, template, record>>

NextRender == Render

SpecRender == InitRender /\ [][NextRender]_vars

(***************************************************************************)
(* Properties.                                                             *)
(***************************************************************************)
ExcludedNames == {"liamnewmarch.github.io", "janineandliam.co.uk"}

Eligible(r) == r.has_pages = TRUE /\ r.name \notin ExcludedNames

NonIncreasing(list) ==
  \A i, j \in 1..Len(list) :
    i < j => DateOf(list[i].updated_at) >= DateOf(list[j].updated_at)

Count(r, list) == Cardinality({i \in 1..Len(list) : list[i] = r})

Stored(list) == [has |-> TRUE, text |-> JSONstringify(list)]

\* The cache entry the last getRepos call read, as JSON.parse saw it.
Cached == JSONparse(getItem(ev.seen))

\* C1: every list handed to the success callback, from the cache or from a
\* fetch, holds only records with has_pages true and a name outside the
\* exclusion list, and is ordered by updated_at descending.
C1_DeliveredFilteredSorted ==
  ev.called = 1 =>
    /\ \A i \in 1..Len(ev.list) : Eligible(ev.list[i])
    /\ NonIncreasing(ev.list)

\* C1 witness: a cache hit delivers a two-record list that the fetch had to
\* reorder.
C1_Witness ==
  /\ ev.kind = "getRepos" /\ ev.called = 1
  /\ ev.list = <<RepoW, RepoX>>

\* C2: a call that missed the cache and whose request completed with a
\* status other than 200 has had its error callback invoked.
C2_ErrorOnOtherStatus ==
  (ev.kind = "load" /\ ~ev.hit /\ ev.status # 200) => ev.err >= 1

\* C3: when the success callback is invoked from the fetch path the cache
\* entry of the user already holds the serialized list, and it holds it
\* when the listener ends, whatever the callback did.
C3_StoredBeforeDelivery ==
  (ev.kind = "load" /\ ev.called = 1) =>
    /\ ev.seen = Stored(ev.list)
    /\ sessionStorage[ev.user] = Stored(ev.list)

\* C4: the cache changes only in a load event with status 200 whose body
\* parsed; a cache hit, another status, a transport error and an unparsable
\* body leave every entry unchanged.
C4_WrittenOnlyOnSuccess ==
  [][sessionStorage' # sessionStorage =>
       /\ ev'.kind = "load"
       /\ ev'.status = 200
       /\ JSONparse(ev'.response).ok]_vars

\* C4 witness: a load event has written the filtered list of a non-empty
\* response into the cache.
C4_Witness ==
  /\ ev.kind = "load" /\ ev.outcome = "stored"
  /\ ev.list # <<>>
  /\ sessionStorage[ev.user] = Stored(ev.list)

\* C5: when the cached value parses, getRepos hands the parsed list to the
\* success callback before it returns and issues no HTTP request.
C5_HitIssuesNoRequest ==
  (ev.kind = "getRepos" /\ Cached.ok) =>
    /\ ev.called = 1
    /\ ev.list = Cached.value
    /\ ev.requests = <<>>

\* C6: when the cache entry is absent or not valid JSON, getRepos returns
\* normally without any callback invoked and with exactly one request in
\* flight, a GET to <baseUrl>/users/<userId>/repos.
C6_MissFetchesOnce ==
  (ev.kind = "getRepos" /\ ~Cached.ok) =>
    /\ ev.outcome = "pending"
    /\ ev.err = 0 /\ ev.succ = 0
    /\ ev.requests =
         << [method |-> "GET",
             url |-> <<"https://api.github.com", "/users/", ev.user, "/repos">>] >>

\* C6 witness: getRepos found a truncated cache entry and sent the request.
C6_Witness ==
  /\ ev.kind = "getRepos"
  /\ ev.seen = [has |-> TRUE, text |-> Truncated]
  /\ Len(pending) >= 1

\* C7: for a call that missed the cache, a transport failure or a 200
\* response that is not valid JSON invokes the error callback, never the
\* success callback, and leaves the cache entry as it was.
C7_FailureCallsError ==
  ( /\ ev.kind \in {"load", "error"}
    /\ ~ev.hit
    /\ \/ ev.kind = "error"
       \/ ev.status = 200 /\ ~JSONparse(ev.response).ok ) =>
    /\ ev.err >= 1
    /\ ev.succ = 0
    /\ sessionStorage[ev.user] = ev.seen

\* C7 witness: a 200 response with a truncated body reached a call that
\* had missed the cache.
C7_Witness ==
  /\ ev.kind = "load" /\ ~ev.hit
  /\ ev.status = 200 /\ ev.response = Truncated
  /\ ev.err = 1

\* C8: once a fetch has delivered list L for a user, the next getRepos call
\* for that user delivers a list equal to L.
C8_RoundTrip ==
  (ev.kind = "getRepos" /\ fetched[ev.user].has) =>
    /\ ev.called = 1
    /\ ev.list = fetched[ev.user].list

\* C9: for a 200 response whose body parses to record list R, the list
\* delivered holds exactly the records of R with has_pages true and a name
\* outside the exclusion set, each as often as in R, and nothing else.
C9_ExactlyEligible ==
  (ev.kind = "load" /\ ev.status = 200 /\ JSONparse(ev.response).kind = "array") =>
    LET R == JSONparse(ev.response).value
    IN  /\ ev.called = 1
        /\ \A i \in 1..Len(ev.list) : \E j \in 1..Len(R) : ev.list[i] = R[j]
        /\ \A j \in 1..Len(R) :
             Count(R[j], ev.list) = IF Eligible(R[j]) THEN Count(R[j], R) ELSE 0

\* C9 witness: the response [x pages, y no pages, liamnewmarch.github.io
\* pages] was delivered as [x].
C9_Witness ==
  /\ ev.kind = "load"
  /\ input = <<RepoX, RepoY, RepoSite>>
  /\ ev.response = JSONstringify(input)
  /\ ev.list = <<RepoX>>

TokenSpans(t) ==
  { sp \in (1..Len(t)) \X (1..Len(t)) :
      \E w \in (sp[1] + 2)..(sp[2] - 2) :
        /\ t[sp[1]] = "{" /\ t[sp[1] + 1] = "{"
        /\ t[sp[2] - 1] = "}" /\ t[sp[2]] = "}"
        /\ t[w] \notin {"{", "}", " ", "<", ">", "/", "-"}
        /\ \A x \in ((sp[1] + 2)..(sp[2] - 2)) \ {w} : t[x] = " " }

KeyOf(t, sp) ==
  CHOOSE key \in {t[w] : w \in (sp[1] + 2)..(sp[2] - 2)} : key # " "

\* The text a token stands for: the string form of record[key], nothing when
\* the field is absent, null or falsy.
Substitute(repo, key) ==
  IF key \notin DOMAIN repo THEN <<>>
  ELSE LET v == repo[key]
       IN  CASE v.t = "null" -> <<>>
             [] v.t = "string" -> IF v.s = "" THEN <<>> ELSE <<v.s>>
             [] v.t = "boolean" -> IF v.b THEN <<"true">> ELSE <<>>
             [] v.t = "number" -> IF v.n = 0 THEN <<>> ELSE <<"7">>

\* What position i of the template contributes to the result.
Piece(t, repo, i) ==
  IF \E sp \in TokenSpans(t) : sp[1] = i
  THEN Substitute(repo, KeyOf(t, CHOOSE sp \in TokenSpans(t) : sp[1] = i))
  ELSE IF \E sp \in TokenSpans(t) : sp[1] < i /\ i <= sp[2]
  THEN <<>>
  ELSE <<t[i]>>

Expected(t, repo) == Flatten([i \in 1..Len(t) |-> Piece(t, repo, i)])

MissesInFlight(u) == {k \in DOMAIN pending : pending[k].user = u /\ ~pending[k].hit}

\* C12: two calls for one user that both miss the cache and overlap each
\* have their own request; each completion with status 200 and a record
\* list delivers it to the call's own success callback, once, and
\* overwrites the cache entry, so that after the load event processed last
\* the entry is that request's list.
C12_LastWriterWins ==
  /\ (ev.kind = "getRepos" /\ ~ev.hit /\ ev.overlapped) =>
       /\ Cardinality(MissesInFlight(ev.user)) >= 2
       /\ \A j, k \in MissesInFlight(ev.user) :
            j # k => pending[j].call # pending[k].call
       /\ \A k \in MissesInFlight(ev.user) : Len(pending[k].requests) = 1
  /\ ( /\ ev.kind = "load" /\ ~ev.hit /\ ev.overlapped
       /\ ev.status = 200 /\ JSONparse(ev.response).kind = "array" ) =>
       /\ ev.called = 1 /\ ev.succ = 1
       /\ sessionStorage[ev.user] = Stored(ev.list)

\* C13: no retry.  Whatever the outcome (cache hit, 200, another status, a
\* body that does not parse, a transport failure, a callback that throws),
\* one getRepos call sends at most one request: every call in flight has
\* exactly one, no two requests in flight belong to one call, and a call
\* whose load or error event was handled has none left.
C13_AtMostOneRequest ==
  /\ Len(ev.requests) <= 1
  /\ \A k \in DOMAIN pending : Len(pending[k].requests) = 1
  /\ \A j, k \in DOMAIN pending : j # k => pending[j].call # pending[k].call
  /\ ev.kind \in {"load", "error"} =>
       \A k \in DOMAIN pending : pending[k].call # ev.call

\* A call answered from the cache whose success callback threw, fetched,
\* and whose success callback threw again on the 200 response: one request.
C13_Witness ==
  /\ ev.kind = "load" /\ ev.hit /\ ev.outcome = "callbackThrew"
  /\ Len(ev.requests) = 1

\* C14: a getRepos call completes at most once: over the whole call the
\* success callback is invoked at most one time, and the success and the
\* error callback are never both invoked, also when the success callback
\* throws.
C14_CompletesOnce ==
  /\ ev.succ <= 1
  /\ ~(ev.succ >= 1 /\ ev.err >= 1)

\* C15: cache entries are isolated per user.  A handler that runs for a
\* call made for user u leaves the entry of every other user as it was, a
\* getRepos call for u reads the entry keyed by u, the entry under a key is
\* only ever written from a request for that user, and a list delivered to
\* a call for u was fetched by a request for u.
C15_PerUserIsolation ==
  /\ [][\A v \in Users :
          v # ev'.user => sessionStorage'[v] = sessionStorage[v]]_vars
  /\ [](/\ \A v \in Users : origin[v] \in {NoUser, v}
        /\ ev.kind = "getRepos" => ev.seen = sessionStorage[ev.user]
        /\ ev.called = 1 => ev.source = ev.user)

\* A list fetched for octocat is stored while a request for liamnewmarch
\* is still in flight and the entry of liamnewmarch is absent.
C15_Witness ==
  /\ ev.kind = "load" /\ ev.user = "octocat" /\ ev.outcome = "stored"
  /\ ev.list # <<>>
  /\ \E k \in DOMAIN pending : pending[k].user = "liamnewmarch"
  /\ sessionStorage["liamnewmarch"] = NoEntry

\* What a container shows for a list: one link per record, in list order,
\* whose markup is "<b>NAME</b> " (the record has no description).
Shown(list) ==
  [i \in 1..Len(list) |->
     [className |-> "repo-list-item",
      href |-> <<"https://liamnewmarch.github.io/", list[i].name, "/">>,
      innerHTML |-> <<"<", "b", ">", list[i].name, "<", "/", "b", ">", " ">>]]

\* C16: when a list is delivered to a component, its container holds
\* exactly one rendered element per record of that list, in list order,
\* most recently updated first, and nothing else (the list is not rendered
\* a second time); a component whose retrieval ended on the error path, or
\* is still waiting, has an empty container.
C16_RendersDeliveredOnce ==
  /\ ev.called = 1 =>
       /\ ev.container = Shown(ev.list)
       /\ NonIncreasing(ev.list)
  /\ ev.succ <= 1
  /\ (ev.kind # "none" /\ ev.succ = 0) => ev.container = <<>>
  /\ ev.err >= 1 => ev.container = <<>>
  /\ \A k \in DOMAIN pending : pending[k].container = <<>>

\* A component was handed two records by a 200 response and shows both.
C16_Witness ==
  /\ ev.kind = "load" /\ ev.called = 1
  /\ Len(ev.list) = 2 /\ Len(ev.container) = 2
  /\ ev.container[1].href[2] = ev.list[1].name
  /\ ev.container[1] # ev.container[2]

====
